---- MODULE Spec2Model ----
(***************************************************************************)
(* Dragonfly decision framework: the synthesis engine (core/synth.py)      *)
(* called directly on caller-supplied assessment lists, the three          *)
(* evaluators (core/nodes.py), and the /decide request that runs them      *)
(* through the runner's graph (service/runtime, service/api).              *)
(*                                                                         *)
(* Numbers.  The code computes robustness in binary floating point.  The   *)
(* model computes the same expressions in exact fixed point:               *)
(*   reversibility scores and severity weights in tenths  (1.0 -> 10),     *)
(*   robustness scores in hundredths                      (1.0 -> 100).    *)
(* All table values are multiples of 0.1, so the real value of every score *)
(* is a multiple of 0.01.  The float the code returns lies within 1e-15 of *)
(* it: every strict comparison of the model (gaps of 0.01 or more) is the  *)
(* code's.  Two actions whose real scores are equal get equal floats when  *)
(* each carries at most two warnings (the lists explored here); from three *)
(* warnings on, the order of summation can make the floats differ in the   *)
(* last bit, and the code then orders the actions by the floats.           *)
(*                                                                         *)
(* Identifiers.  uuid4() values are modelled by positive integers, fresh   *)
(* per object: an action's id is its position in candidate_actions, an     *)
(* assessment's id its position in the list it ends up in.                 *)
(*                                                                         *)
(* Exceptions.  A function that can raise returns a record whose status    *)
(* is "ok" (with the value) or the exception's class name.                 *)
(***************************************************************************)
EXTENDS Integers, Sequences, FiniteSets, TLC

VARIABLES
    situation,     \* the Situation the caller holds
    assessments,   \* the assessment list the caller passes
    decision,      \* what synthesize returned (status "none" before the call)
    ret,           \* what the last direct call of a synthesis function returned
    raised,        \* the exception in flight in a /decide request
    response,      \* the HTTP response of the /decide request
    pc             \* direct calls: "caller", then "returned";
                   \* a request: "request", the graph node about to run,
                   \* "END" or "raised", then "responded"

vars == <<situation, assessments, decision, ret, raised, response, pc>>

-----------------------------------------------------------------------------
(* Bounds of the explored inputs *)

MaxActions == 3
MaxAssessments == 2
MaxWarnings == 5
MaxRunActions == 2
MaxObservations == 2
MaxRuns == 2
MaxRepeatActions == 1
MaxRepeatObservations == 1
MaxAppendedObservations == 3

-----------------------------------------------------------------------------
(* core/types.py *)

\* Assessment.action_id = None.  Real ids are positive.
NoId == 0

Reversibility == {"reversible", "costly", "irreversible"}
Severity == {"low", "medium", "high"}

\* Observation(content, source, reliability, id)
Observation(content, source, reliability, id) ==
    [content |-> content, source |-> source, reliability |-> reliability,
     id |-> id]

\* ActionSpec(name, description, reversibility, id, time_sensitivity);
\* time_sensitivity None is "none"
ActionSpec(name, reversibility, id, time_sensitivity) ==
    [name |-> name, reversibility |-> reversibility, id |-> id,
     time_sensitivity |-> time_sensitivity]

\* Assessment(situation_id, agent_type, claim, support, confidence,
\*            severity, reversibility, is_hard_constraint, id, action_id,
\*            recommended_tests)
Assessment(situation_id, agent_type, claim, support, confidence, severity, reversibility, is_hard_constraint, id, action_id, recommended_tests) ==
    [situation_id |-> situation_id, agent_type |-> agent_type,
     claim |-> claim, support |-> support, confidence |-> confidence,
     severity |-> severity, reversibility |-> reversibility,
     is_hard_constraint |-> is_hard_constraint, id |-> id,
     action_id |-> action_id, recommended_tests |-> recommended_tests]

MonitoringTrigger(condition, action_on_trigger) ==
    [condition |-> condition, action_on_trigger |-> action_on_trigger]

-----------------------------------------------------------------------------
(* core/synth.py *)

\* mutant: the table is inverted, irreversible rated best
REVERSIBILITY_SCORES_inverted ==
    [reversible |-> 0, costly |-> 5, irreversible |-> 10]

\* mutant: costly rated as high as reversible
REVERSIBILITY_SCORES_costly_full ==
    [reversible |-> 10, costly |-> 10, irreversible |-> 0]

\* tenths
REVERSIBILITY_SCORES == [reversible |-> 10, costly |-> 5, irreversible |-> 0]

\* mutant: the weights are whole points, not tenths
SEVERITY_WEIGHTS_whole == [low |-> 10, medium |-> 20, high |-> 30]

\* mutant: a low warning weighs nothing
SEVERITY_WEIGHTS_low_zero == [low |-> 0, medium |-> 2, high |-> 3]

\* tenths
SEVERITY_WEIGHTS == [low |-> 1, medium |-> 2, high |-> 3]

\* dict.get(key, default)
Get(table, key, default) ==
    IF key \in DOMAIN table THEN table[key] ELSE default

Raise(exc, message) == [status |-> exc, message |-> message]
Return(value) == [status |-> "ok", value |-> value]

\* mutant: the filter is skipped, every action survives
filter_by_constraints_none(actions, assmts) == actions

\* mutant: is_hard_constraint is not tested, a warning disqualifies as well
filter_by_constraints_any(actions, assmts) ==
    LET violated_action_ids ==
            {assmts[i].action_id :
                i \in {j \in DOMAIN assmts : assmts[j].action_id # NoId}}
        Kept(action) == action.id \notin violated_action_ids
    IN  SelectSeq(actions, Kept)

\* mutant: a hard constraint without action_id counts against every action
filter_by_constraints_unscoped(actions, assmts) ==
    LET violated_action_ids ==
            {assmts[i].action_id :
                i \in {j \in DOMAIN assmts : assmts[j].is_hard_constraint}}
        Kept(action) ==
            /\ action.id \notin violated_action_ids
            /\ NoId \notin violated_action_ids
    IN  SelectSeq(actions, Kept)

filter_by_constraints(actions, assmts) ==
    LET violated_action_ids ==
            {assmts[i].action_id :
                i \in {j \in DOMAIN assmts :
                          /\ assmts[j].is_hard_constraint
                          /\ assmts[j].action_id # NoId}}
        Kept(action) == action.id \notin violated_action_ids
    IN  SelectSeq(actions, Kept)

RECURSIVE SumWeights(_)
SumWeights(warnings) ==
    IF warnings = <<>> THEN 0
    ELSE Get(SEVERITY_WEIGHTS, Head(warnings).severity, 2)
            + SumWeights(Tail(warnings))

\* mutant: only the first warning on the action is counted
warning_penalty_first(action, assmts) ==
    LET IsWarning(a) == a.action_id = action.id /\ ~a.is_hard_constraint
        warnings == SelectSeq(assmts, IsWarning)
    IN  IF warnings = <<>> THEN 0 ELSE SumWeights(<<Head(warnings)>>)

\* sum of the severity weights of the action's non-hard assessments (tenths)
warning_penalty(action, assmts) ==
    LET IsWarning(a) == a.action_id = action.id /\ ~a.is_hard_constraint
    IN  SumWeights(SelectSeq(assmts, IsWarning))

Max(a, b) == IF a >= b THEN a ELSE b

\* mutant: the warning term is not clamped at 0
score_robustness_unclamped(action, assmts) ==
    LET rev_score == Get(REVERSIBILITY_SCORES, action.reversibility, 5)
        constraint_score == 10 - warning_penalty(action, assmts)
    IN  6 * rev_score + 4 * constraint_score

\* hundredths
score_robustness(action, assmts) ==
    LET rev_score == Get(REVERSIBILITY_SCORES, action.reversibility, 5)
        constraint_score == Max(0, 10 - warning_penalty(action, assmts))
    IN  6 * rev_score + 4 * constraint_score

\* list.index(x): the first position holding a value equal to x
Index(list, x) ==
    CHOOSE i \in DOMAIN list :
        /\ list[i] = x
        /\ \A j \in 1..(i - 1) : list[j] # x

\* tuple comparison k1 < k2 on integer tuples of equal length
RECURSIVE KeyLess(_, _)
KeyLess(k1, k2) ==
    IF k1 = <<>> THEN FALSE
    ELSE \/ Head(k1) < Head(k2)
         \/ Head(k1) = Head(k2) /\ KeyLess(Tail(k1), Tail(k2))

\* insertion of entry e = [key, item] behind every entry whose key is not
\* greater: the step of a stable sort
RECURSIVE InsertStable(_, _)
InsertStable(sorted, e) ==
    IF sorted = <<>> THEN <<e>>
    ELSE IF KeyLess(e.key, Head(sorted).key)
         THEN <<e>> \o sorted
         ELSE <<Head(sorted)>> \o InsertStable(Tail(sorted), e)

\* list.sort(key=...) / sorted(..., key=...): a stable sort by key
RECURSIVE SortByKey(_)
SortByKey(entries) ==
    IF entries = <<>> THEN <<>>
    ELSE InsertStable(SortByKey(SubSeq(entries, 1, Len(entries) - 1)),
                      entries[Len(entries)])

\* mutant: ties are resolved in favour of the action listed last
select_action_last(actions, assmts) ==
    IF actions = <<>>
    THEN Raise("ValueError", "Cannot select from empty action list")
    ELSE LET scored == [i \in DOMAIN actions |->
                 [key  |-> << -score_robustness(actions[i], assmts),
                              -Index(actions, actions[i]) >>,
                  item |-> actions[i]]]
         IN  Return(SortByKey(scored)[1].item)

select_action(actions, assmts) ==
    IF actions = <<>>
    THEN Raise("ValueError", "Cannot select from empty action list")
    ELSE LET scored == [i \in DOMAIN actions |->
                 [key  |-> << -score_robustness(actions[i], assmts),
                              Index(actions, actions[i]) >>,
                  item |-> actions[i]]]
         IN  Return(SortByKey(scored)[1].item)

\* mutant: is_hard_constraint is not tested
generate_monitoring_hard_too(assmts) ==
    LET Triggers(a) == a.severity = "high"
        open == SelectSeq(assmts, Triggers)
    IN  [i \in DOMAIN open |->
            MonitoringTrigger("Monitor: " \o open[i].claim, "alert")]

generate_monitoring(assmts) ==
    LET Triggers(a) == ~a.is_hard_constraint /\ a.severity = "high"
        open == SelectSeq(assmts, Triggers)
    IN  [i \in DOMAIN open |->
            MonitoringTrigger("Monitor: " \o open[i].claim, "alert")]

\* mutant: an empty list yields a placeholder action instead of an error
find_most_reversible_placeholder(actions) ==
    IF actions = <<>>
    THEN Return(ActionSpec("", "reversible", NoId, "none"))
    ELSE LET keyed == [i \in DOMAIN actions |->
                 [key  |-> << -Get(REVERSIBILITY_SCORES,
                                   actions[i].reversibility, 5) >>,
                  item |-> actions[i]]]
         IN  Return(SortByKey(keyed)[1].item)

\* mutant: the descending sort is taken as the reversed ascending sort, which
\* puts the last of the equally reversible actions first
find_most_reversible_last(actions) ==
    IF actions = <<>>
    THEN Raise("ValueError", "Cannot find most reversible from empty list")
    ELSE LET keyed == [i \in DOMAIN actions |->
                 [key  |-> << Get(REVERSIBILITY_SCORES,
                                  actions[i].reversibility, 5) >>,
                  item |-> actions[i]]]
             ascending == SortByKey(keyed)
         IN  Return(ascending[Len(ascending)].item)

\* sorted(actions, key=reversibility score, reverse=True)[0]; reverse=True
\* keeps the original order of equal keys, as a stable sort by the negated key
find_most_reversible(actions) ==
    IF actions = <<>>
    THEN Raise("ValueError", "Cannot find most reversible from empty list")
    ELSE LET keyed == [i \in DOMAIN actions |->
                 [key  |-> << -Get(REVERSIBILITY_SCORES,
                                   actions[i].reversibility, 5) >>,
                  item |-> actions[i]]]
         IN  Return(SortByKey(keyed)[1].item)

Decision(sit, selected_action, alternatives, robustness_basis, assessments_used, monitoring) ==
    [status |-> "ok",
     situation_id |-> sit.id,
     tenant_id |-> sit.tenant_id,
     selected_action |-> selected_action,
     alternatives_considered |-> alternatives,
     robustness_basis |-> robustness_basis,
     assessments_used |-> assessments_used,
     monitoring |-> monitoring]

\* mutant: without a surviving action there is no fallback, the call raises
synthesize_fallback_raises(sit, assmts) ==
    LET surviving_actions ==
            filter_by_constraints(sit.candidate_actions, assmts)
        monitoring == generate_monitoring(assmts)
        assessments_used == [i \in DOMAIN assmts |-> assmts[i].id]
        Alternatives(selected) ==
            LET Other(a) == a.id # selected.id
            IN  SelectSeq(sit.candidate_actions, Other)
        selected == select_action(surviving_actions, assmts)
    IN  IF selected.status # "ok" THEN selected
        ELSE Decision(sit, selected.value,
                Alternatives(selected.value),
                [basis |-> "Passed all hard constraints.",
                 name |-> selected.value.name,
                 score |-> score_robustness(selected.value, assmts),
                 reversibility |-> selected.value.reversibility],
                assessments_used, monitoring)

\* mutant: the alternatives are taken from the surviving actions, not from
\* all candidate actions
synthesize_alternatives_survivors(sit, assmts) ==
    LET surviving_actions ==
            filter_by_constraints(sit.candidate_actions, assmts)
        monitoring == generate_monitoring(assmts)
        assessments_used == [i \in DOMAIN assmts |-> assmts[i].id]
        Alternatives(selected) ==
            LET Other(a) == a.id # selected.id
            IN  SelectSeq(surviving_actions, Other)
    IN  IF surviving_actions # <<>>
        THEN LET selected == select_action(surviving_actions, assmts)
             IN  IF selected.status # "ok" THEN selected
                 ELSE Decision(sit, selected.value,
                         Alternatives(selected.value),
                         [basis |-> "Passed all hard constraints.",
                          name |-> selected.value.name,
                          score |-> score_robustness(selected.value, assmts),
                          reversibility |-> selected.value.reversibility],
                         assessments_used, monitoring)
        ELSE LET selected == find_most_reversible(sit.candidate_actions)
             IN  IF selected.status # "ok" THEN selected
                 ELSE Decision(sit, selected.value,
                         Alternatives(selected.value),
                         [basis |-> "No action passed all hard constraints.",
                          name |-> selected.value.name,
                          fallback |-> "most reversible"],
                         assessments_used, monitoring)

\* mutant: only the assessments that are no hard constraint are recorded as
\* used
synthesize_used_warnings(sit, assmts) ==
    LET surviving_actions ==
            filter_by_constraints(sit.candidate_actions, assmts)
        monitoring == generate_monitoring(assmts)
        IsWarning(a) == ~a.is_hard_constraint
        warnings == SelectSeq(assmts, IsWarning)
        assessments_used == [i \in DOMAIN warnings |-> warnings[i].id]
        Alternatives(selected) ==
            LET Other(a) == a.id # selected.id
            IN  SelectSeq(sit.candidate_actions, Other)
    IN  IF surviving_actions # <<>>
        THEN LET selected == select_action(surviving_actions, assmts)
             IN  IF selected.status # "ok" THEN selected
                 ELSE Decision(sit, selected.value,
                         Alternatives(selected.value),
                         [basis |-> "Passed all hard constraints.",
                          name |-> selected.value.name,
                          score |-> score_robustness(selected.value, assmts),
                          reversibility |-> selected.value.reversibility],
                         assessments_used, monitoring)
        ELSE LET selected == find_most_reversible(sit.candidate_actions)
             IN  IF selected.status # "ok" THEN selected
                 ELSE Decision(sit, selected.value,
                         Alternatives(selected.value),
                         [basis |-> "No action passed all hard constraints.",
                          name |-> selected.value.name,
                          fallback |-> "most reversible"],
                         assessments_used, monitoring)

\* mutant: monitoring is generated from the assessments that refer to a
\* surviving action only
synthesize_monitoring_survivors(sit, assmts) ==
    LET surviving_actions ==
            filter_by_constraints(sit.candidate_actions, assmts)
        OnSurvivor(a) ==
            \E i \in DOMAIN surviving_actions :
                surviving_actions[i].id = a.action_id
        monitoring == generate_monitoring(SelectSeq(assmts, OnSurvivor))
        assessments_used == [i \in DOMAIN assmts |-> assmts[i].id]
        Alternatives(selected) ==
            LET Other(a) == a.id # selected.id
            IN  SelectSeq(sit.candidate_actions, Other)
    IN  IF surviving_actions # <<>>
        THEN LET selected == select_action(surviving_actions, assmts)
             IN  IF selected.status # "ok" THEN selected
                 ELSE Decision(sit, selected.value,
                         Alternatives(selected.value),
                         [basis |-> "Passed all hard constraints.",
                          name |-> selected.value.name,
                          score |-> score_robustness(selected.value, assmts),
                          reversibility |-> selected.value.reversibility],
                         assessments_used, monitoring)
        ELSE LET selected == find_most_reversible(sit.candidate_actions)
             IN  IF selected.status # "ok" THEN selected
                 ELSE Decision(sit, selected.value,
                         Alternatives(selected.value),
                         [basis |-> "No action passed all hard constraints.",
                          name |-> selected.value.name,
                          fallback |-> "most reversible"],
                         assessments_used, monitoring)

\* mutant: the best action is selected among all candidates, not among the
\* surviving ones
synthesize_selects_from_all(sit, assmts) ==
    LET surviving_actions ==
            filter_by_constraints(sit.candidate_actions, assmts)
        monitoring == generate_monitoring(assmts)
        assessments_used == [i \in DOMAIN assmts |-> assmts[i].id]
        Alternatives(selected) ==
            LET Other(a) == a.id # selected.id
            IN  SelectSeq(sit.candidate_actions, Other)
    IN  IF surviving_actions # <<>>
        THEN LET selected == select_action(sit.candidate_actions, assmts)
             IN  IF selected.status # "ok" THEN selected
                 ELSE Decision(sit, selected.value,
                         Alternatives(selected.value),
                         [basis |-> "Passed all hard constraints.",
                          name |-> selected.value.name,
                          score |-> score_robustness(selected.value, assmts),
                          reversibility |-> selected.value.reversibility],
                         assessments_used, monitoring)
        ELSE LET selected == find_most_reversible(sit.candidate_actions)
             IN  IF selected.status # "ok" THEN selected
                 ELSE Decision(sit, selected.value,
                         Alternatives(selected.value),
                         [basis |-> "No action passed all hard constraints.",
                          name |-> selected.value.name,
                          fallback |-> "most reversible"],
                         assessments_used, monitoring)

synthesize(sit, assmts) ==
    LET surviving_actions ==
            filter_by_constraints(sit.candidate_actions, assmts)
        monitoring == generate_monitoring(assmts)
        assessments_used == [i \in DOMAIN assmts |-> assmts[i].id]
        Alternatives(selected) ==
            LET Other(a) == a.id # selected.id
            IN  SelectSeq(sit.candidate_actions, Other)
    IN  IF surviving_actions # <<>>
        THEN LET selected == select_action(surviving_actions, assmts)
             IN  IF selected.status # "ok" THEN selected
                 ELSE Decision(sit, selected.value,
                         Alternatives(selected.value),
                         [basis |-> "Passed all hard constraints.",
                          name |-> selected.value.name,
                          score |-> score_robustness(selected.value, assmts),
                          reversibility |-> selected.value.reversibility],
                         assessments_used, monitoring)
        ELSE LET selected == find_most_reversible(sit.candidate_actions)
             IN  IF selected.status # "ok" THEN selected
                 ELSE Decision(sit, selected.value,
                         Alternatives(selected.value),
                         [basis |-> "No action passed all hard constraints.",
                          name |-> selected.value.name,
                          fallback |-> "most reversible"],
                         assessments_used, monitoring)

-----------------------------------------------------------------------------
(* core/nodes.py *)

DEADLINE_KEYWORDS ==
    {"deadline", "due", "by friday", "by monday", "by tuesday",
     "by wednesday", "by thursday", "end of", "must complete", "time limit",
     "urgent", "asap", "immediately", "today", "tomorrow", "this week"}

INCREASE_KEYWORDS ==
    {"increase", "grow", "rise", "up", "higher", "more", "expand", "gain"}

DECREASE_KEYWORDS ==
    {"decrease", "drop", "fall", "down", "lower", "less", "shrink", "decline"}

UpperToLower ==
    [A |-> "a", B |-> "b", C |-> "c", D |-> "d", E |-> "e", F |-> "f",
     G |-> "g", H |-> "h", I |-> "i", J |-> "j", K |-> "k", L |-> "l",
     M |-> "m", N |-> "n", O |-> "o", P |-> "p", Q |-> "q", R |-> "r",
     S |-> "s", T |-> "t", U |-> "u", V |-> "v", W |-> "w", X |-> "x",
     Y |-> "y", Z |-> "z"]

\* str.lower() on ASCII text
RECURSIVE Lower(_)
Lower(text) ==
    IF Len(text) = 0 THEN ""
    ELSE LET c == SubSeq(text, 1, 1)
         IN  Get(UpperToLower, c, c) \o Lower(SubSeq(text, 2, Len(text)))

\* keyword in text: substring search
Contains(text, keyword) ==
    \E i \in 1..(Len(text) - Len(keyword) + 1) :
        SubSeq(text, i, i + Len(keyword) - 1) = keyword

\* any(kw in content_lower for kw in keywords)
MatchesAny(content, keywords) ==
    LET content_lower == Lower(content)
    IN  \E kw \in keywords : Contains(content_lower, kw)

\* observation texts of requests: a deadline, an increase, a decrease, and
\* a text without any keyword
RequestContents ==
    {"Deadline is Friday", "Sales will increase", "Prices may drop",
     "No change expected"}

\* the observation texts handed to an evaluator directly: those of the
\* requests, and one that speaks of an increase and of a decrease
ObservedContents == RequestContents \cup {"Sales up, prices down"}

\* what MatchesAny yields on each observation text explored, for the three
\* keyword sets; evaluated once
KeywordMatches ==
    [content \in ObservedContents |->
        [deadline |-> MatchesAny(content, DEADLINE_KEYWORDS),
         increase |-> MatchesAny(content, INCREASE_KEYWORDS),
         decrease |-> MatchesAny(content, DECREASE_KEYWORDS)]]

\* uuid4() of the assessments an evaluator builds: fresh ids from first_id
FreshIds(built, first_id) ==
    [i \in DOMAIN built |-> [built[i] EXCEPT !.id = first_id + i - 1]]

\* [obs.id for obs in situation.observations]
ObservationIds(sit) == [i \in DOMAIN sit.observations |-> sit.observations[i].id]

\* mutant: only the first observation is examined
has_deadline_indicator_first_only(sit) ==
    /\ sit.observations # <<>>
    /\ KeywordMatches[sit.observations[1].content].deadline

has_deadline_indicator(sit) ==
    \E i \in DOMAIN sit.observations :
        KeywordMatches[sit.observations[i].content].deadline

\* mutant: every action that is not immediate is held against the deadline
ConstraintAgent_for_action_not_immediate(sit, has_deadline, action) ==
    (IF has_deadline /\ action.time_sensitivity # "immediate"
     THEN << Assessment(sit.id, "constraint",
                "Action '" \o action.name
                    \o "' may miss deadline due to flexible timing",
                ObservationIds(sit), "high", "high", "irreversible", TRUE,
                NoId, action.id, <<>>) >>
     ELSE <<>>)
    \o
    (IF action.reversibility = "irreversible" /\ sit.stakes = "high"
     THEN << Assessment(sit.id, "constraint",
                "Irreversible action '" \o action.name
                    \o "' in high-stakes situation",
                <<>>, "high", "high", "irreversible", FALSE,
                NoId, action.id, <<>>) >>
     ELSE IF action.reversibility = "irreversible" /\ sit.stakes = "medium"
     THEN << Assessment(sit.id, "constraint",
                "Irreversible action '" \o action.name
                    \o "' limits future options",
                <<>>, "medium", "medium", "irreversible", FALSE,
                NoId, action.id, <<>>) >>
     ELSE <<>>)

\* mutant: an irreversible action is warned about at every stakes level
ConstraintAgent_for_action_any_stakes(sit, has_deadline, action) ==
    (IF has_deadline /\ action.time_sensitivity = "flexible"
     THEN << Assessment(sit.id, "constraint",
                "Action '" \o action.name
                    \o "' may miss deadline due to flexible timing",
                ObservationIds(sit), "high", "high", "irreversible", TRUE,
                NoId, action.id, <<>>) >>
     ELSE <<>>)
    \o
    (IF action.reversibility = "irreversible" /\ sit.stakes = "high"
     THEN << Assessment(sit.id, "constraint",
                "Irreversible action '" \o action.name
                    \o "' in high-stakes situation",
                <<>>, "high", "high", "irreversible", FALSE,
                NoId, action.id, <<>>) >>
     ELSE IF action.reversibility = "irreversible"
     THEN << Assessment(sit.id, "constraint",
                "Irreversible action '" \o action.name
                    \o "' limits future options",
                <<>>, "medium", "medium", "irreversible", FALSE,
                NoId, action.id, <<>>) >>
     ELSE <<>>)

\* the assessments ConstraintAgent.assess appends for one action
ConstraintAgent_for_action(sit, has_deadline, action) ==
    (IF has_deadline /\ action.time_sensitivity = "flexible"
     THEN << Assessment(sit.id, "constraint",
                "Action '" \o action.name
                    \o "' may miss deadline due to flexible timing",
                ObservationIds(sit), "high", "high", "irreversible", TRUE,
                NoId, action.id, <<>>) >>
     ELSE <<>>)
    \o
    (IF action.reversibility = "irreversible" /\ sit.stakes = "high"
     THEN << Assessment(sit.id, "constraint",
                "Irreversible action '" \o action.name
                    \o "' in high-stakes situation",
                <<>>, "high", "high", "irreversible", FALSE,
                NoId, action.id, <<>>) >>
     ELSE IF action.reversibility = "irreversible" /\ sit.stakes = "medium"
     THEN << Assessment(sit.id, "constraint",
                "Irreversible action '" \o action.name
                    \o "' limits future options",
                <<>>, "medium", "medium", "irreversible", FALSE,
                NoId, action.id, <<>>) >>
     ELSE <<>>)

\* for x in list: out.extend(PerItem(x))
RECURSIVE ConstraintLoop(_, _, _)
ConstraintLoop(sit, has_deadline, actions) ==
    IF actions = <<>> THEN <<>>
    ELSE ConstraintAgent_for_action(sit, has_deadline, Head(actions))
            \o ConstraintLoop(sit, has_deadline, Tail(actions))

ConstraintAgent_assess(sit, first_id) ==
    LET has_deadline == has_deadline_indicator(sit)
    IN  FreshIds(ConstraintLoop(sit, has_deadline, sit.candidate_actions),
                 first_id)

REVERSIBILITY_SEVERITY ==
    [reversible |-> "low", costly |-> "medium", irreversible |-> "high"]

\* mutant: high stakes raise the severity of a costly action as well
StabilityAgent_for_action_costly_raised(sit, action) ==
    LET base == Get(REVERSIBILITY_SEVERITY, action.reversibility, "medium")
        severity ==
            IF sit.stakes = "high" /\ action.reversibility # "reversible"
            THEN "high" ELSE base
    IN  IF action.reversibility = "irreversible"
        THEN Assessment(sit.id, "stability",
                "Action '" \o action.name
                    \o "' is irreversible and reduces future options",
                <<>>, "high", severity, "irreversible", FALSE,
                NoId, action.id, <<>>)
        ELSE IF action.reversibility = "costly"
        THEN Assessment(sit.id, "stability",
                "Action '" \o action.name \o "' is costly to reverse",
                <<>>, "medium", severity, "costly", FALSE,
                NoId, action.id, <<>>)
        ELSE Assessment(sit.id, "stability",
                "Action '" \o action.name
                    \o "' preserves optionality (reversible)",
                <<>>, "high", "low", "reversible", FALSE,
                NoId, action.id, <<>>)

\* the assessment StabilityAgent.assess appends for one action
StabilityAgent_for_action(sit, action) ==
    LET base == Get(REVERSIBILITY_SEVERITY, action.reversibility, "medium")
        severity ==
            IF sit.stakes = "high" /\ action.reversibility = "irreversible"
            THEN "high" ELSE base
    IN  IF action.reversibility = "irreversible"
        THEN Assessment(sit.id, "stability",
                "Action '" \o action.name
                    \o "' is irreversible and reduces future options",
                <<>>, "high", severity, "irreversible", FALSE,
                NoId, action.id, <<>>)
        ELSE IF action.reversibility = "costly"
        THEN Assessment(sit.id, "stability",
                "Action '" \o action.name \o "' is costly to reverse",
                <<>>, "medium", severity, "costly", FALSE,
                NoId, action.id, <<>>)
        ELSE Assessment(sit.id, "stability",
                "Action '" \o action.name
                    \o "' preserves optionality (reversible)",
                <<>>, "high", "low", "reversible", FALSE,
                NoId, action.id, <<>>)

StabilityAgent_assess(sit, first_id) ==
    FreshIds([i \in DOMAIN sit.candidate_actions |->
                 StabilityAgent_for_action(sit, sit.candidate_actions[i])],
             first_id)

\* mutant: the warning is of medium severity whatever the stakes
LowReliabilityWarnings_medium(sit) ==
    LET IsFlagged(obs) ==
            obs.reliability = "low" /\ sit.stakes \in {"high", "medium"}
        flagged == SelectSeq(sit.observations, IsFlagged)
    IN  [i \in DOMAIN flagged |->
            Assessment(sit.id, "reality_check",
                "Low reliability source '" \o flagged[i].source
                    \o "' informing " \o sit.stakes \o "-stakes decision",
                <<flagged[i].id>>, "high", "medium",
                "reversible", FALSE, NoId, NoId,
                <<"Verify information from " \o flagged[i].source>>)]

\* mutant: the warning is laid on the first candidate action
LowReliabilityWarnings_on_first_action(sit) ==
    LET IsFlagged(obs) ==
            obs.reliability = "low" /\ sit.stakes \in {"high", "medium"}
        flagged == SelectSeq(sit.observations, IsFlagged)
    IN  [i \in DOMAIN flagged |->
            Assessment(sit.id, "reality_check",
                "Low reliability source '" \o flagged[i].source
                    \o "' informing " \o sit.stakes \o "-stakes decision",
                <<flagged[i].id>>, "high",
                IF sit.stakes = "high" THEN "high" ELSE "medium",
                "reversible", FALSE, NoId,
                IF sit.candidate_actions = <<>> THEN NoId
                ELSE sit.candidate_actions[1].id,
                <<"Verify information from " \o flagged[i].source>>)]

\* mutant: a low-reliability observation is flagged at low stakes as well
LowReliabilityWarnings_any_stakes(sit) ==
    LET IsFlagged(obs) == obs.reliability = "low"
        flagged == SelectSeq(sit.observations, IsFlagged)
    IN  [i \in DOMAIN flagged |->
            Assessment(sit.id, "reality_check",
                "Low reliability source '" \o flagged[i].source
                    \o "' informing " \o sit.stakes \o "-stakes decision",
                <<flagged[i].id>>, "high",
                IF sit.stakes = "high" THEN "high" ELSE "medium",
                "reversible", FALSE, NoId, NoId,
                <<"Verify information from " \o flagged[i].source>>)]

\* the low-reliability warnings, one per low-reliability observation
LowReliabilityWarnings(sit) ==
    LET IsFlagged(obs) ==
            obs.reliability = "low" /\ sit.stakes \in {"high", "medium"}
        flagged == SelectSeq(sit.observations, IsFlagged)
    IN  [i \in DOMAIN flagged |->
            Assessment(sit.id, "reality_check",
                "Low reliability source '" \o flagged[i].source
                    \o "' informing " \o sit.stakes \o "-stakes decision",
                <<flagged[i].id>>, "high",
                IF sit.stakes = "high" THEN "high" ELSE "medium",
                "reversible", FALSE, NoId, NoId,
                <<"Verify information from " \o flagged[i].source>>)]

\* for inc_obs in increase_obs: for dec_obs in decrease_obs: append pair
RECURSIVE CrossPairs(_, _)
CrossPairs(increase_obs, decrease_obs) ==
    IF increase_obs = <<>> THEN <<>>
    ELSE [j \in DOMAIN decrease_obs |->
             <<Head(increase_obs), decrease_obs[j]>>]
         \o CrossPairs(Tail(increase_obs), decrease_obs)

\* mutant: an observation that matches both keyword sets counts on both
\* sides
detect_conflicts_both_sides(observations) ==
    LET has_increase(obs) == KeywordMatches[obs.content].increase
        has_decrease(obs) == KeywordMatches[obs.content].decrease
    IN  CrossPairs(SelectSeq(observations, has_increase),
                   SelectSeq(observations, has_decrease))

detect_conflicts(observations) ==
    LET has_increase(obs) == KeywordMatches[obs.content].increase
        has_decrease(obs) == KeywordMatches[obs.content].decrease
        IncreaseOnly(obs) == has_increase(obs) /\ ~has_decrease(obs)
        DecreaseOnly(obs) == has_decrease(obs) /\ ~has_increase(obs)
    IN  CrossPairs(SelectSeq(observations, IncreaseOnly),
                   SelectSeq(observations, DecreaseOnly))

\* mutant: the absence of observations is reported whether or not there are
\* candidate actions
RealityCheckAgent_assess_missing_always(sit, first_id) ==
    LET conflicts == detect_conflicts(sit.observations)
        conflict_assessments ==
            [i \in DOMAIN conflicts |->
                Assessment(sit.id, "reality_check",
                    "Conflicting observations: '" \o conflicts[i][1].source
                        \o "' vs '" \o conflicts[i][2].source \o "'",
                    <<conflicts[i][1].id, conflicts[i][2].id>>, "high",
                    "medium", "reversible", FALSE, NoId, NoId,
                    <<"Gather additional data to resolve conflict">>)]
        missing ==
            IF sit.observations = <<>>
            THEN << Assessment(sit.id, "reality_check",
                        "No observations available to inform decision",
                        <<>>, "high", "medium", "reversible", FALSE,
                        NoId, NoId,
                        <<"Gather relevant observations before deciding">>) >>
            ELSE <<>>
    IN  FreshIds(LowReliabilityWarnings(sit) \o conflict_assessments
                     \o missing,
                 first_id)

RealityCheckAgent_assess(sit, first_id) ==
    LET conflicts == detect_conflicts(sit.observations)
        conflict_assessments ==
            [i \in DOMAIN conflicts |->
                Assessment(sit.id, "reality_check",
                    "Conflicting observations: '" \o conflicts[i][1].source
                        \o "' vs '" \o conflicts[i][2].source \o "'",
                    <<conflicts[i][1].id, conflicts[i][2].id>>, "high",
                    "medium", "reversible", FALSE, NoId, NoId,
                    <<"Gather additional data to resolve conflict">>)]
        missing ==
            IF sit.observations = <<>> /\ sit.candidate_actions # <<>>
            THEN << Assessment(sit.id, "reality_check",
                        "No observations available to inform decision",
                        <<>>, "high", "medium", "reversible", FALSE,
                        NoId, NoId,
                        <<"Gather relevant observations before deciding">>) >>
            ELSE <<>>
    IN  FreshIds(LowReliabilityWarnings(sit) \o conflict_assessments
                     \o missing,
                 first_id)

-----------------------------------------------------------------------------
(* Inputs: the Situations and assessment lists a caller of the core builds *)

\* sequences over S of length 0..n
SeqUpTo(S, n) == UNION {[1..k -> S] : k \in 0..n}

\* candidate_actions: ids are unique (fresh uuid4 per ActionSpec); the
\* action at position i carries id i
ActionName(id) == "action-" \o ToString(id)

ActionLists ==
    {[i \in DOMAIN revs |-> ActionSpec(ActionName(i), revs[i], i, "none")] :
        revs \in SeqUpTo(Reversibility, MaxActions)}

\* Situation(tenant_id, goal, time_horizon, stakes, observations,
\*           candidate_actions, id)
Situation(stakes, observations, candidate_actions) ==
    [tenant_id |-> "test-tenant", stakes |-> stakes,
     observations |-> observations, candidate_actions |-> candidate_actions,
     id |-> 1]

\* the action ids an assessment of a situation with n actions may carry:
\* none, each candidate's id, and one id no candidate has
ActionIdsFor(n) == {NoId} \cup (1..(n + 1))

ClaimText(id) == "Test assessment " \o ToString(id)

\* one hard constraint per candidate action, as a caller builds them to
\* disqualify every action (tests/unit/core/test_synth.py:381-397)
AllConstrained(actions) ==
    [i \in DOMAIN actions |->
        Assessment(1, "constraint", ClaimText(i), <<>>, "high", "high",
                   "irreversible", TRUE, i, actions[i].id, <<>>)]

\* up to MaxAssessments assessments of any severity, kind and action id,
\* with fresh ids from first_id on and a claim text of their own
FreeAssessments(n, first_id) ==
    {[i \in DOMAIN fs |->
        Assessment(1, "constraint", ClaimText(first_id + i - 1), <<>>,
                   "medium", fs[i][1], "reversible", fs[i][2],
                   first_id + i - 1, fs[i][3], <<>>)] :
        fs \in SeqUpTo(Severity \X BOOLEAN \X ActionIdsFor(n), MaxAssessments)}

\* the assessment lists explored for a candidate list: the free lists, and
\* the free lists behind one hard constraint per candidate
AssessmentLists(actions) ==
    FreeAssessments(Len(actions), 1)
    \cup {AllConstrained(actions) \o free :
            free \in FreeAssessments(Len(actions), Len(actions) + 1)}

NoDecision == [status |-> "none"]
NoReturn == [op |-> "none"]
NoException == [status |-> "none"]
NoResponse == [status_code |-> 0]

InitCore ==
    /\ \E actions \in ActionLists :
          /\ situation = Situation("medium", <<>>, actions)
          /\ assessments \in AssessmentLists(actions)
    /\ decision = NoDecision
    /\ ret = NoReturn
    /\ raised = NoException
    /\ response = NoResponse
    /\ pc = "caller"

-----------------------------------------------------------------------------
(* Direct calls of the synthesis functions *)

CallFilterByConstraints ==
    /\ pc = "caller"
    /\ ret' = [op |-> "filter_by_constraints",
               result |-> Return(filter_by_constraints(
                             situation.candidate_actions, assessments))]
    /\ pc' = "returned"
    /\ UNCHANGED <<situation, assessments, decision, raised, response>>

CallSelectAction ==
    /\ pc = "caller"
    /\ ret' = [op |-> "select_action",
               result |-> select_action(situation.candidate_actions,
                                        assessments)]
    /\ pc' = "returned"
    /\ UNCHANGED <<situation, assessments, decision, raised, response>>

CallGenerateMonitoring ==
    /\ pc = "caller"
    /\ ret' = [op |-> "generate_monitoring",
               result |-> Return(generate_monitoring(assessments))]
    /\ pc' = "returned"
    /\ UNCHANGED <<situation, assessments, decision, raised, response>>

CallSynthesize ==
    /\ pc = "caller"
    /\ decision' = synthesize(situation, assessments)
    /\ pc' = "returned"
    /\ UNCHANGED <<situation, assessments, ret, raised, response>>

-----------------------------------------------------------------------------
(* score_robustness on a growing list of assessments *)

\* the reversibility values an ActionSpec may carry: the three of the type
\* and one the REVERSIBILITY_SCORES table does not know
ScoredReversibilities == Reversibility \cup {"partial"}

\* what the caller appends: a warning on the scored action of each severity
\* (one of them unknown to SEVERITY_WEIGHTS), a hard constraint on it, and
\* a warning on another action
Appendable ==
    {<<sev, FALSE, 1>> : sev \in Severity \cup {"critical"}}
    \cup {<<"high", TRUE, 1>>, <<"high", FALSE, 2>>}

InitScore ==
    /\ situation = Situation("medium", <<>>,
                     <<ActionSpec(ActionName(1), "reversible", 1, "none")>>)
    /\ assessments = <<>>
    /\ decision = NoDecision
    /\ ret = NoReturn
    /\ raised = NoException
    /\ response = NoResponse
    /\ pc = "caller"

AppendAssessment ==
    /\ pc = "caller"
    /\ Len(assessments) < MaxWarnings
    /\ \E f \in Appendable :
          LET id == Len(assessments) + 1
          IN  assessments' = Append(assessments,
                  Assessment(1, "constraint", ClaimText(id), <<>>,
                             "medium", f[1], "reversible", f[2], id, f[3],
                             <<>>))
    /\ UNCHANGED <<situation, decision, ret, raised, response, pc>>

\* score_robustness of the action, and of the actions that differ from it
\* in reversibility only, against the current list
CallScoreRobustness ==
    /\ pc = "caller"
    /\ ret' = [op |-> "score_robustness",
               args |-> assessments,
               result |-> Return(
                   [r \in ScoredReversibilities |->
                       score_robustness(
                           [situation.candidate_actions[1]
                               EXCEPT !.reversibility = r],
                           assessments)])]
    /\ UNCHANGED <<situation, assessments, decision, raised, response, pc>>

NextScore ==
    \/ AppendAssessment
    \/ CallScoreRobustness

SpecScore == InitScore /\ [][NextScore]_vars

-----------------------------------------------------------------------------
(* core/graph.py *)

\* the declared graph; the runner does not read it
PHASE1_GRAPH ==
    [nodes |-> <<"constraint", "stability", "reality_check", "synthesis">>,
     adjacency |-> [constraint |-> <<"synthesis">>,
                    stability |-> <<"synthesis">>,
                    reality_check |-> <<"synthesis">>,
                    synthesis |-> <<>>]]

-----------------------------------------------------------------------------
(* The /decide request: service/api/routes.py and the runner's graph,      *)
(* service/runtime/langgraph_runner.py                                     *)

Stakes == {"low", "medium", "high"}
Reliability == {"low", "medium", "high"}
TimeSensitivity == {"none", "immediate", "near", "flexible"}

SourceName(id) == "source-" \o ToString(id)

ObservationLists ==
    {[i \in DOMAIN os |-> Observation(os[i][1], SourceName(i), os[i][2], i)] :
        os \in SeqUpTo(RequestContents \X Reliability, MaxObservations)}

RequestActionLists ==
    {[i \in DOMAIN as |-> ActionSpec(ActionName(i), as[i][1], i, as[i][2])] :
        as \in SeqUpTo(Reversibility \X TimeSensitivity, MaxRunActions)}

\* decide: the Situation built from the request (routes.py:149-160)
InitService ==
    /\ \E stakes \in Stakes, observations \in ObservationLists,
          actions \in RequestActionLists :
          situation = Situation(stakes, observations, actions)
    /\ assessments = <<>>
    /\ decision = NoDecision
    /\ ret = NoReturn
    /\ raised = NoException
    /\ response = NoResponse
    /\ pc = "request"

\* mutant: run passes on the state the graph ended the previous run with
RunnerRun_keeps_state ==
    /\ pc = "request"
    /\ pc' = "constraint"
    /\ UNCHANGED <<situation, assessments, decision, ret, raised, response>>

\* DragonflyRunner.run: the initial state, and the graph's entry point
RunnerRun ==
    /\ pc = "request"
    /\ assessments' = <<>>
    /\ decision' = NoDecision
    /\ pc' = "constraint"
    /\ UNCHANGED <<situation, ret, raised, response>>

\* _constraint_node, then the edge constraint -> stability
ConstraintNode ==
    /\ pc = "constraint"
    /\ assessments' = assessments
            \o ConstraintAgent_assess(situation, Len(assessments) + 1)
    /\ pc' = "stability"
    /\ UNCHANGED <<situation, decision, ret, raised, response>>

\* mutant: the node returns the new assessments only, replacing the list
StabilityNode_overwrites ==
    /\ pc = "stability"
    /\ assessments' = StabilityAgent_assess(situation, Len(assessments) + 1)
    /\ pc' = "reality_check"
    /\ UNCHANGED <<situation, decision, ret, raised, response>>

\* _stability_node, then the edge stability -> reality_check
StabilityNode ==
    /\ pc = "stability"
    /\ assessments' = assessments
            \o StabilityAgent_assess(situation, Len(assessments) + 1)
    /\ pc' = "reality_check"
    /\ UNCHANGED <<situation, decision, ret, raised, response>>

\* _reality_check_node, then the edge reality_check -> synthesis
RealityCheckNode ==
    /\ pc = "reality_check"
    /\ assessments' = assessments
            \o RealityCheckAgent_assess(situation, Len(assessments) + 1)
    /\ pc' = "synthesis"
    /\ UNCHANGED <<situation, decision, ret, raised, response>>

\* _synthesis_node, then the edge synthesis -> END; an exception of
\* synthesize leaves the graph and run
SynthesisNode ==
    /\ pc = "synthesis"
    /\ LET result == synthesize(situation, assessments)
       IN  IF result.status = "ok"
           THEN /\ decision' = result
                /\ raised' = raised
                /\ pc' = "END"
           ELSE /\ decision' = decision
                /\ raised' = result
                /\ pc' = "raised"
    /\ UNCHANGED <<situation, assessments, ret, response>>

\* _decision_to_response: ids rendered with str()
decision_to_response(d) ==
    LET ActionResponse(a) ==
            [id |-> ToString(a.id), name |-> a.name,
             reversibility |-> a.reversibility,
             time_sensitivity |-> a.time_sensitivity]
    IN  [situation_id |-> ToString(d.situation_id),
         tenant_id |-> d.tenant_id,
         selected_action |-> ActionResponse(d.selected_action),
         alternatives_considered |->
            [i \in DOMAIN d.alternatives_considered |->
                ActionResponse(d.alternatives_considered[i])],
         robustness_basis |-> d.robustness_basis,
         assessments_used |->
            [i \in DOMAIN d.assessments_used |->
                ToString(d.assessments_used[i])],
         monitoring |-> d.monitoring]

\* the end of run and of decide: the decision as a 200 response, a
\* ValueError as 400, any other exception as 500
Respond ==
    /\ pc \in {"END", "raised"}
    /\ response' =
            IF pc = "raised"
            THEN IF raised.status = "ValueError"
                 THEN [status_code |-> 400, detail |-> raised.message]
                 ELSE [status_code |-> 500,
                       detail |-> "Internal error: " \o raised.message]
            ELSE IF decision.status = "none"
            THEN [status_code |-> 400,
                  detail |-> "Graph execution did not produce a decision"]
            ELSE [status_code |-> 200, body |-> decision_to_response(decision)]
    /\ pc' = "responded"
    /\ UNCHANGED <<situation, assessments, decision, ret, raised>>

NextService ==
    \/ RunnerRun
    \/ ConstraintNode
    \/ StabilityNode
    \/ RealityCheckNode
    \/ SynthesisNode
    \/ Respond

SpecService == InitService /\ [][NextService]_vars

-----------------------------------------------------------------------------
(* Several /decide requests, one after another, on the runner get_runner    *)
(* returns                                                                  *)

\* the Situations of the n-th request: decide builds a new Situation, with
\* an id of its own, for every request
RunSituations(n) ==
    {[Situation(stakes, observations, actions) EXCEPT !.id = n] :
        stakes \in Stakes,
        observations \in {os \in ObservationLists :
                              Len(os) <= MaxRepeatObservations},
        actions \in {as \in RequestActionLists :
                         Len(as) <= MaxRepeatActions}}

InitRuns ==
    /\ situation \in RunSituations(1)
    /\ assessments = <<>>
    /\ decision = NoDecision
    /\ ret = NoReturn
    /\ raised = NoException
    /\ response = NoResponse
    /\ pc = "request"

\* the next call of decide: a new Situation, and get_runner returns the
\* runner of the previous request, whose graph ended in the state left in
\* assessments and decision
DecideAgain ==
    /\ pc = "responded"
    /\ situation.id < MaxRuns
    /\ situation' \in RunSituations(situation.id + 1)
    /\ raised' = NoException
    /\ response' = NoResponse
    /\ pc' = "request"
    /\ UNCHANGED <<assessments, decision, ret>>

NextRuns ==
    \/ NextService
    \/ DecideAgain

SpecRuns == InitRuns /\ [][NextRuns]_vars

-----------------------------------------------------------------------------
(* RealityCheckAgent.assess called directly on a Situation whose            *)
(* observation list grows                                                   *)

\* no observation yet; no candidate action or a single one
InitReality ==
    /\ \E stakes \in Stakes,
          actions \in {as \in RequestActionLists : Len(as) <= 1} :
          situation = Situation(stakes, <<>>, actions)
    /\ assessments = <<>>
    /\ decision = NoDecision
    /\ ret = NoReturn
    /\ raised = NoException
    /\ response = NoResponse
    /\ pc = "caller"

\* the caller adds an Observation to the Situation it is building
AppendObservation ==
    /\ pc = "caller"
    /\ Len(situation.observations) < MaxAppendedObservations
    /\ \E content \in ObservedContents, reliability \in Reliability :
          LET id == Len(situation.observations) + 1
          IN  situation' =
                [situation EXCEPT !.observations =
                    Append(@, Observation(content, SourceName(id),
                                          reliability, id))]
    /\ UNCHANGED <<assessments, decision, ret, raised, response, pc>>

CallRealityCheck ==
    /\ pc = "caller"
    /\ ret' = [op |-> "RealityCheckAgent.assess",
               result |-> Return(RealityCheckAgent_assess(situation, 1))]
    /\ pc' = "returned"
    /\ UNCHANGED <<situation, assessments, decision, raised, response>>

NextReality ==
    \/ AppendObservation
    \/ CallRealityCheck

SpecReality == InitReality /\ [][NextReality]_vars

Init == InitCore

Next ==
    \/ CallFilterByConstraints
    \/ CallSelectAction
    \/ CallGenerateMonitoring
    \/ CallSynthesize

Spec == Init /\ [][Next]_vars

\* direct calls of the core and /decide requests together
InitAll == InitCore \/ InitService

NextAll == Next \/ NextService

SpecAll == InitAll /\ [][NextAll]_vars

-----------------------------------------------------------------------------
(* Vocabulary of the properties *)

\* an Assessment with is_hard_constraint = true carries the action's id
HardConstrained(action, assmts) ==
    \E i \in DOMAIN assmts :
        assmts[i].is_hard_constraint /\ assmts[i].action_id = action.id

\* positions of the candidate actions no hard constraint refers to
SurvivorPositions ==
    {i \in DOMAIN situation.candidate_actions :
        ~HardConstrained(situation.candidate_actions[i], assessments)}

\* the k-th smallest member of a set of positions
Nth(positions, k) ==
    CHOOSE p \in positions : Cardinality({q \in positions : q < p}) = k - 1

\* result lists exactly the members of source at the given positions, in
\* the order of source
IsSelectionOf(result, source, positions) ==
    /\ Len(result) = Cardinality(positions)
    /\ \A k \in DOMAIN result : result[k] = source[Nth(positions, k)]

Score(i) == score_robustness(situation.candidate_actions[i], assessments)

-----------------------------------------------------------------------------
(* C3 *)

\* C3: filter_by_constraints returns exactly the actions no hard-constraint
\* Assessment refers to, in their input order; without a hard constraint
\* (whatever the severities of the warnings) it returns the input unchanged.
C3_FilterExact ==
    ret.op = "filter_by_constraints" =>
        /\ ret.result.status = "ok"
        /\ IsSelectionOf(ret.result.value, situation.candidate_actions,
                         SurvivorPositions)
        /\ (\A i \in DOMAIN assessments : ~assessments[i].is_hard_constraint)
              => ret.result.value = situation.candidate_actions

\* an action is removed, two are kept in order behind it, and a kept action
\* carries a high-severity warning that is no hard constraint
C3_Witness ==
    /\ ret.op = "filter_by_constraints"
    /\ Len(situation.candidate_actions) = 3
    /\ SurvivorPositions = {2, 3}
    /\ \E i \in DOMAIN assessments :
          /\ ~assessments[i].is_hard_constraint
          /\ assessments[i].severity = "high"
          /\ assessments[i].action_id = 3

-----------------------------------------------------------------------------
(* C2 *)

\* C2: on a non-empty list select_action returns an action of maximal
\* robustness score, the one at the smallest position among those.
C2_SelectMaxFirst ==
    (ret.op = "select_action" /\ situation.candidate_actions # <<>>) =>
        /\ ret.result.status = "ok"
        /\ \E i \in DOMAIN situation.candidate_actions :
              /\ ret.result.value = situation.candidate_actions[i]
              /\ \A j \in DOMAIN situation.candidate_actions :
                    /\ Score(j) <= Score(i)
                    /\ j < i => Score(j) < Score(i)

\* a tie for the maximum between the second and third action, both ahead
\* of the first: the second is returned
C2_Witness ==
    /\ ret.op = "select_action"
    /\ Len(situation.candidate_actions) = 3
    /\ Score(2) = Score(3)
    /\ Score(1) < Score(2)
    /\ ret.result.value = situation.candidate_actions[2]

-----------------------------------------------------------------------------
(* C1 *)

\* C1: when some candidate action is referred to by no hard constraint,
\* synthesize returns a Decision whose selected action is such a survivor,
\* scores at least as high as every survivor and is listed before every
\* survivor of equal score.
C1_NeverSelectsDisqualified ==
    (decision.status # "none" /\ SurvivorPositions # {}) =>
        /\ decision.status = "ok"
        /\ \E i \in SurvivorPositions :
              /\ decision.selected_action = situation.candidate_actions[i]
              /\ \A j \in SurvivorPositions :
                    /\ Score(j) <= Score(i)
                    /\ j < i => Score(j) < Score(i)

\* the first action scores highest but is disqualified; the other two
\* survive with equal scores and the earlier of them is selected
C1_Witness ==
    /\ decision.status = "ok"
    /\ Len(situation.candidate_actions) = 3
    /\ SurvivorPositions = {2, 3}
    /\ Score(1) > Score(2)
    /\ Score(2) = Score(3)
    /\ decision.selected_action = situation.candidate_actions[2]

-----------------------------------------------------------------------------
(* C4 *)

RevScore(i) ==
    LET r == situation.candidate_actions[i].reversibility
    IN  CASE r = "reversible" -> 10
          [] r = "costly" -> 5
          [] r = "irreversible" -> 0

\* C4: when every action of a non-empty candidate list is hard-constrained,
\* synthesize returns a Decision that selects the first-listed action of the
\* highest reversibility score among all candidates, whatever the warnings,
\* and whose robustness_basis states that no action passed all hard
\* constraints.
C4_FallbackMostReversible ==
    (/\ decision.status # "none"
     /\ situation.candidate_actions # <<>>
     /\ SurvivorPositions = {}) =>
        /\ decision.status = "ok"
        /\ decision.robustness_basis.basis
              = "No action passed all hard constraints."
        /\ \E i \in DOMAIN situation.candidate_actions :
              /\ decision.selected_action = situation.candidate_actions[i]
              /\ \A j \in DOMAIN situation.candidate_actions :
                    /\ RevScore(j) <= RevScore(i)
                    /\ j < i => RevScore(j) < RevScore(i)

\* every action is disqualified, the first two are equally reversible, and
\* a warning makes the selected first action score lower than the second
C4_Witness ==
    /\ decision.status = "ok"
    /\ Len(situation.candidate_actions) >= 2
    /\ SurvivorPositions = {}
    /\ RevScore(1) = RevScore(2)
    /\ Score(1) < Score(2)
    /\ decision.selected_action = situation.candidate_actions[1]

-----------------------------------------------------------------------------
(* C9, C10 *)

\* positions of the assessments that are no hard constraint and of
\* severity high
OpenHighPositions ==
    {i \in DOMAIN assessments :
        ~assessments[i].is_hard_constraint /\ assessments[i].severity = "high"}

\* triggers holds one alert per open high-severity assessment, in input
\* order, its condition built from that assessment's claim
IsMonitoringOfAll(triggers) ==
    /\ Len(triggers) = Cardinality(OpenHighPositions)
    /\ \A k \in DOMAIN triggers :
          /\ triggers[k].action_on_trigger = "alert"
          /\ triggers[k].condition =
                "Monitor: " \o assessments[Nth(OpenHighPositions, k)].claim

\* C9: generate_monitoring returns one alert trigger per Assessment that is
\* not a hard constraint and has severity high, in input order, each
\* condition derived from that assessment's claim, and nothing else.
C9_MonitoringExact ==
    ret.op = "generate_monitoring" =>
        /\ ret.result.status = "ok"
        /\ IsMonitoringOfAll(ret.result.value)

\* a hard constraint of severity high and a medium warning yield nothing,
\* two high warnings yield their two triggers in order
C9_Witness ==
    /\ ret.op = "generate_monitoring"
    /\ Len(ret.result.value) = 2
    /\ \E i \in DOMAIN assessments :
          assessments[i].is_hard_constraint /\ assessments[i].severity = "high"
    /\ Len(assessments) > 2

\* C10: Decision.monitoring holds the triggers of the full assessment list,
\* on the survivor path and on the fallback path alike, whichever action
\* (or none) each assessment refers to.
C10_MonitoringUnfiltered ==
    decision.status = "ok" => IsMonitoringOfAll(decision.monitoring)

\* survivor path: a trigger comes from a warning on an action that a hard
\* constraint removed
C10_Witness ==
    /\ decision.status = "ok"
    /\ decision.robustness_basis.basis = "Passed all hard constraints."
    /\ Len(decision.monitoring) = 1
    /\ \E j \in OpenHighPositions, h \in DOMAIN assessments :
          /\ assessments[j].action_id # NoId
          /\ assessments[j].action_id # decision.selected_action.id
          /\ assessments[h].is_hard_constraint
          /\ assessments[h].action_id = assessments[j].action_id

-----------------------------------------------------------------------------
(* C6, C7, C8 *)

\* positions of the warnings of list on the scored action (id 1)
WarningPositions(list) ==
    {i \in DOMAIN list : list[i].action_id = 1 /\ ~list[i].is_hard_constraint}

\* total warning penalty of list in tenths: 0.1 per low, 0.2 per medium,
\* 0.3 per high warning, 0.2 per warning of any other severity
PenaltyOf(list) ==
    LET Count(sevs) ==
            Cardinality({i \in WarningPositions(list) : list[i].severity \in sevs})
    IN  Count({"low"}) + 3 * Count({"high"})
        + 2 * (Cardinality(WarningPositions(list)) - Count({"low", "high"}))

\* C6: score_robustness lies in [0.0, 1.0] for every reversibility (known
\* or not) and every list of warnings (of known severity or not).
C6_ScoreInUnitRange ==
    ret.op = "score_robustness" =>
        \A r \in DOMAIN ret.result.value :
            0 <= ret.result.value[r] /\ ret.result.value[r] <= 100

\* the warning term is clamped (total penalty above 1) by warnings that
\* include one of unknown severity; the irreversible action scores 0.0 and
\* the action of unknown reversibility 0.3
C6_Witness ==
    /\ ret.op = "score_robustness"
    /\ PenaltyOf(ret.args) > 10
    /\ \E i \in WarningPositions(ret.args) : ret.args[i].severity = "critical"
    /\ ret.result.value["irreversible"] = 0
    /\ ret.result.value["partial"] = 30

\* C7: against the same assessment list, the reversible action scores
\* strictly higher than the costly one, which scores strictly higher than
\* the irreversible one.
C7_ReversibilityOrder ==
    ret.op = "score_robustness" =>
        /\ ret.result.value["reversible"] > ret.result.value["costly"]
        /\ ret.result.value["costly"] > ret.result.value["irreversible"]

\* three warnings of total penalty 0.6: scores 0.76 > 0.46 > 0.16
C7_Witness ==
    /\ ret.op = "score_robustness"
    /\ Cardinality(WarningPositions(ret.args)) = 3
    /\ PenaltyOf(ret.args) = 6
    /\ ret.result.value["reversible"] = 76
    /\ ret.result.value["costly"] = 46
    /\ ret.result.value["irreversible"] = 16

\* list2 is list with one more warning on the scored action at its end
IsWarningAdded(list, list2) ==
    /\ Len(list2) = Len(list) + 1
    /\ SubSeq(list2, 1, Len(list)) = list
    /\ Len(list2) \in WarningPositions(list2)

\* C8: scoring a list and then the list with one more warning on the action
\* never yields a higher score, and yields an equal score only when the
\* total penalty of the first list was already 1 or more.
C8_WarningNeverRaises ==
    [][(/\ ret.op = "score_robustness"
        /\ ret'.op = "score_robustness"
        /\ IsWarningAdded(ret.args, ret'.args)) =>
            \A r \in DOMAIN ret.result.value :
                /\ ret'.result.value[r] <= ret.result.value[r]
                /\ ret'.result.value[r] = ret.result.value[r]
                      => PenaltyOf(ret.args) >= 10]_vars

\* the score of a list whose last entry is a fifth warning on the action,
\* behind four that already reach a total penalty of 1
C8_Witness ==
    /\ ret.op = "score_robustness"
    /\ Len(ret.args) = 5
    /\ IsWarningAdded(SubSeq(ret.args, 1, 4), ret.args)
    /\ PenaltyOf(SubSeq(ret.args, 1, 4)) >= 10
    /\ ret.result.value["reversible"] = 60

-----------------------------------------------------------------------------
(* C5 *)

\* C5: an empty candidate-action list yields an invalid-input error and
\* never a result: select_action on the empty list raises ValueError;
\* synthesize on a Situation without candidate actions raises ValueError
\* whatever the assessments; a /decide request without candidate actions
\* ends the graph with the exception and without a decision, and is
\* answered with an error status and no Decision.
C5_EmptyActionsRaise ==
    situation.candidate_actions = <<>> =>
        /\ ret.op = "select_action" => ret.result.status = "ValueError"
        /\ (pc = "returned" /\ ret = NoReturn)
              => decision.status = "ValueError"
        /\ pc \in {"END", "raised", "responded"} =>
              /\ pc # "END"
              /\ decision.status = "none"
              /\ raised.status = "ValueError"
        /\ pc = "responded" =>
              /\ response.status_code \in {400, 500}
              /\ "body" \notin DOMAIN response

\* a request without candidate actions whose two low-reliability
\* observations made RealityCheckAgent emit warnings is answered with 400
C5_Witness ==
    /\ pc = "responded"
    /\ situation.candidate_actions = <<>>
    /\ Len(assessments) >= 2
    /\ response.status_code = 400

\* synthesize called directly on no candidate actions and a non-empty
\* assessment list has raised
C5_WitnessDirect ==
    /\ pc = "returned"
    /\ situation.candidate_actions = <<>>
    /\ Len(assessments) = 2
    /\ decision.status = "ValueError"

-----------------------------------------------------------------------------
(* C11 *)

\* list without its entry at position p
WithoutPosition(list, p) ==
    SubSeq(list, 1, p - 1) \o SubSeq(list, p + 1, Len(list))

\* C11: every Decision synthesize returns (survivor or fallback path) selects
\* one of the candidate actions, and alternatives_considered is the candidate
\* list with exactly the selected action removed, in the original order: it
\* keeps the actions removed by hard constraints, never holds the selected
\* action, and is one shorter than the candidate list.
C11_AlternativesAreTheOthers ==
    (pc = "returned" /\ decision.status = "ok") =>
        \E p \in DOMAIN situation.candidate_actions :
            /\ decision.selected_action = situation.candidate_actions[p]
            /\ decision.alternatives_considered
                  = WithoutPosition(situation.candidate_actions, p)
            /\ Len(decision.alternatives_considered)
                  = Len(situation.candidate_actions) - 1
            /\ \A k \in DOMAIN decision.alternatives_considered :
                  decision.alternatives_considered[k].id
                      # decision.selected_action.id

\* the survivor path on three candidates: the middle one is selected, the
\* first was removed by a hard constraint and is listed as an alternative
C11_Witness ==
    /\ pc = "returned"
    /\ decision.status = "ok"
    /\ Len(situation.candidate_actions) = 3
    /\ SurvivorPositions = {2, 3}
    /\ decision.selected_action.id = 2
    /\ decision.alternatives_considered
          = << situation.candidate_actions[1], situation.candidate_actions[3] >>

-----------------------------------------------------------------------------
(* C12 *)

\* C12: assessments_used lists the id of every Assessment passed to
\* synthesize, in input order and as long as the input, on the survivor and
\* on the fallback path, whatever the assessments refer to.
C12_AssessmentsUsedComplete ==
    (pc = "returned" /\ decision.status = "ok") =>
        /\ Len(decision.assessments_used) = Len(assessments)
        /\ \A i \in DOMAIN assessments :
              decision.assessments_used[i] = assessments[i].id

\* the fallback path: every candidate carries a hard constraint, and the
\* list also holds an assessment that refers to no action and a warning on
\* an action that is not selected
C12_Witness ==
    /\ pc = "returned"
    /\ decision.status = "ok"
    /\ Len(situation.candidate_actions) = 2
    /\ SurvivorPositions = {}
    /\ Len(decision.assessments_used) = 4
    /\ \E i, j \in DOMAIN assessments :
          /\ assessments[i].action_id = NoId
          /\ ~assessments[j].is_hard_constraint
          /\ assessments[j].action_id \in DOMAIN situation.candidate_actions
          /\ assessments[j].action_id # decision.selected_action.id

-----------------------------------------------------------------------------
(* C13 *)

\* the six orders in which the three evaluators can run
EvaluatorOrders ==
    {order \in [1..3 -> {"constraint", "stability", "reality_check"}] :
        \A i, j \in 1..3 : i # j => order[i] # order[j]}

\* the list an evaluator returns for the situation
EvaluatorOutput(sit, agent_type, first_id) ==
    CASE agent_type = "constraint" -> ConstraintAgent_assess(sit, first_id)
      [] agent_type = "stability" -> StabilityAgent_assess(sit, first_id)
      [] agent_type = "reality_check" ->
            RealityCheckAgent_assess(sit, first_id)

\* the outputs of the three evaluators, concatenated in the given order
Concatenated(sit, order) ==
    LET first == EvaluatorOutput(sit, order[1], 1)
        second == first \o EvaluatorOutput(sit, order[2], Len(first) + 1)
    IN  second \o EvaluatorOutput(sit, order[3], Len(second) + 1)

\* the multiset of the entries of a list
BagOf(list) ==
    [x \in {list[i] : i \in DOMAIN list} |->
        Cardinality({i \in DOMAIN list : list[i] = x})]

\* the claims of the assessments a decision records as used
ClaimsUsed(d, assmts) ==
    [k \in DOMAIN d.assessments_used |->
        (CHOOSE a \in {assmts[i] : i \in DOMAIN assmts} :
            a.id = d.assessments_used[k]).claim]

\* C13: the Decision does not depend on the order in which the three
\* evaluators run: for a Situation with at least one candidate action, the
\* decision of the run equals, for each of the six orders of concatenating
\* the evaluators' outputs, what synthesize yields on that concatenation, in
\* selected_action, alternatives_considered, robustness_basis, the multiset
\* of monitoring triggers and the multiset of assessment claims used.
C13_EvaluatorOrderIrrelevant ==
    (pc = "END" /\ situation.candidate_actions # <<>>) =>
        \A order \in EvaluatorOrders :
            LET list == Concatenated(situation, order)
                d == synthesize(situation, list)
            IN  /\ d.status = "ok"
                /\ d.selected_action = decision.selected_action
                /\ d.alternatives_considered
                      = decision.alternatives_considered
                /\ d.robustness_basis = decision.robustness_basis
                /\ BagOf(d.monitoring) = BagOf(decision.monitoring)
                /\ BagOf(ClaimsUsed(d, list))
                      = BagOf(ClaimsUsed(decision, assessments))

\* a run in which each evaluator has emitted an assessment and the selected
\* action carries a warning of ConstraintAgent and one of StabilityAgent of
\* different severities
C13_Witness ==
    /\ pc = "END"
    /\ \A agent_type \in {"constraint", "stability", "reality_check"} :
          \E i \in DOMAIN assessments :
              assessments[i].agent_type = agent_type
    /\ \E i, j \in DOMAIN assessments :
          /\ assessments[i].agent_type = "constraint"
          /\ assessments[j].agent_type = "stability"
          /\ assessments[i].action_id = decision.selected_action.id
          /\ assessments[j].action_id = decision.selected_action.id
          /\ ~assessments[i].is_hard_constraint
          /\ assessments[i].severity # assessments[j].severity

-----------------------------------------------------------------------------
(* C14 *)

\* the steps a run can take: the entry point, the graph's edges, the
\* exception that leaves the synthesis node, and the response
RunSteps ==
    {<<"request", "constraint">>, <<"constraint", "stability">>,
     <<"stability", "reality_check">>, <<"reality_check", "synthesis">>,
     <<"synthesis", "END">>, <<"synthesis", "raised">>,
     <<"END", "responded">>, <<"raised", "responded">>}

\* the assessment list is what the evaluators that have run returned, in
\* the order they ran, each output once
AssessmentsAreOutputsSoFar ==
    LET constraint == ConstraintAgent_assess(situation, 1)
        stability ==
            StabilityAgent_assess(situation, Len(constraint) + 1)
        reality_check ==
            RealityCheckAgent_assess(situation,
                Len(constraint) + Len(stability) + 1)
    IN  /\ pc \in {"request", "constraint"} => assessments = <<>>
        /\ pc = "stability" => assessments = constraint
        /\ pc = "reality_check" => assessments = constraint \o stability
        /\ pc \in {"synthesis", "END", "raised", "responded"} =>
              assessments = constraint \o stability \o reality_check

\* C14: in every run, synthesis runs exactly once and only after each of the
\* constraint, stability and reality_check evaluators has run exactly once on
\* the same Situation; the list synthesis receives is the concatenation of
\* the three outputs, nothing dropped, duplicated or overwritten; and there
\* is no decision before the synthesis step.
C14_SynthesisAfterAllEvaluators ==
    /\ [](/\ AssessmentsAreOutputsSoFar
          /\ pc \in {"request", "constraint", "stability", "reality_check",
                      "synthesis"} => decision = NoDecision
          /\ pc = "END" => decision = synthesize(situation, assessments))
    /\ [][/\ situation' = situation
          /\ pc' # pc => <<pc, pc'>> \in RunSteps
          /\ decision' # decision => (pc = "synthesis" /\ pc' = "END")]_vars

\* a run has ended with a decision made from a list to which each of the
\* three evaluators contributed at least one assessment
C14_Witness ==
    /\ pc = "END"
    /\ decision.status = "ok"
    /\ Len(ConstraintAgent_assess(situation, 1)) >= 1
    /\ Len(RealityCheckAgent_assess(situation, 1)) >= 1
    /\ Len(assessments) >= 4
    /\ Len(decision.assessments_used) = Len(assessments)

-----------------------------------------------------------------------------
(* C15 *)

\* an observation of the situation contains a deadline keyword
HasDeadlineObservation ==
    \E i \in DOMAIN situation.observations :
        MatchesAny(situation.observations[i].content, DEADLINE_KEYWORDS)

\* C15: through the whole pipeline, when an Observation contains a deadline
\* keyword and some candidate action is not flexible, every action with
\* time_sensitivity = flexible is hard-constrained and the Decision never
\* selects a flexible action, whichever order the actions are listed in.
C15_DeadlineExcludesFlexible ==
    (/\ pc = "END"
     /\ HasDeadlineObservation
     /\ \E i \in DOMAIN situation.candidate_actions :
           situation.candidate_actions[i].time_sensitivity # "flexible") =>
        /\ \A i \in DOMAIN situation.candidate_actions :
              situation.candidate_actions[i].time_sensitivity = "flexible"
                  => HardConstrained(situation.candidate_actions[i],
                                     assessments)
        /\ decision.status = "ok"
        /\ decision.selected_action.time_sensitivity # "flexible"

\* the deadline is in the second observation only; the flexible reversible
\* action is listed first and scores higher than the immediate irreversible
\* one, which is selected
C15_Witness ==
    /\ pc = "END"
    /\ Len(situation.observations) = 2
    /\ situation.observations[1].content = "No change expected"
    /\ situation.observations[2].content = "Deadline is Friday"
    /\ Len(situation.candidate_actions) = 2
    /\ situation.candidate_actions[1].time_sensitivity = "flexible"
    /\ situation.candidate_actions[1].reversibility = "reversible"
    /\ situation.candidate_actions[2].time_sensitivity = "immediate"
    /\ situation.candidate_actions[2].reversibility = "irreversible"
    /\ decision.selected_action.id = 2

-----------------------------------------------------------------------------
(* C16 *)

\* C16: through the whole pipeline, when the candidate actions are one
\* reversible and one irreversible action and no action is hard-constrained,
\* the Decision selects the reversible one, in either listing order and at
\* every stakes level.
C16_ReversiblePreferred ==
    (/\ pc = "END"
     /\ Len(situation.candidate_actions) = 2
     /\ {situation.candidate_actions[i].reversibility : i \in 1..2}
           = {"reversible", "irreversible"}
     /\ \A i \in 1..2 :
           ~HardConstrained(situation.candidate_actions[i], assessments)) =>
        /\ decision.status = "ok"
        /\ decision.selected_action.reversibility = "reversible"

\* the irreversible action is listed first, stakes are low (it carries no
\* ConstraintAgent warning), and the reversible action listed second is
\* selected on the survivor path
C16_Witness ==
    /\ pc = "END"
    /\ situation.stakes = "low"
    /\ Len(situation.candidate_actions) = 2
    /\ situation.candidate_actions[1].reversibility = "irreversible"
    /\ situation.candidate_actions[2].reversibility = "reversible"
    /\ SurvivorPositions = {1, 2}
    /\ decision.selected_action.id = 2
    /\ decision.robustness_basis.basis = "Passed all hard constraints."

-----------------------------------------------------------------------------
(* C17 *)

\* C17: through the whole pipeline, when stakes is high, an Observation has
\* reliability low and there is a candidate action, the Decision's
\* monitoring holds at least one trigger, whatever the candidate actions.
C17_LowReliabilityIsMonitored ==
    (/\ pc = "END"
     /\ situation.stakes = "high"
     /\ situation.candidate_actions # <<>>
     /\ \E i \in DOMAIN situation.observations :
           situation.observations[i].reliability = "low") =>
        /\ decision.status = "ok"
        /\ Len(decision.monitoring) >= 1

\* high stakes, one low-reliability observation and one reversible action:
\* the only trigger is the one of the low-reliability warning
C17_Witness ==
    /\ pc = "END"
    /\ situation.stakes = "high"
    /\ Len(situation.observations) = 1
    /\ situation.observations[1].reliability = "low"
    /\ Len(situation.candidate_actions) = 1
    /\ situation.candidate_actions[1].reversibility = "reversible"
    /\ Len(decision.monitoring) = 1

-----------------------------------------------------------------------------
(* C18 *)

\* how far a run has got
RunRank ==
    [request |-> 0, constraint |-> 1, stability |-> 2, reality_check |-> 3,
     synthesis |-> 4, END |-> 5, raised |-> 5, responded |-> 6]

\* the value is a list of Assessments of the situation
IsAssessmentList(list, sit) ==
    /\ DOMAIN list = 1..Len(list)
    /\ \A i \in DOMAIN list :
          /\ list[i].situation_id = sit.id
          /\ list[i].agent_type
                \in {"constraint", "stability", "reality_check"}
          /\ list[i].severity \in Severity
          /\ list[i].is_hard_constraint \in BOOLEAN

\* C18: the pipeline is total apart from the empty-action case: on every
\* Situation, with or without candidate actions, each of the three
\* evaluators returns a list of Assessments; every step takes the run
\* further, so a run has at most six steps; the synthesis step either
\* yields a Decision or raises, and it raises only for a Situation without
\* candidate actions; a run on at least one candidate action ends with a
\* Decision whose selected action is one of the candidates.
C18_PipelineTotal ==
    /\ [](/\ pc = "request" =>
                \A agent_type \in {"constraint", "stability", "reality_check"} :
                    IsAssessmentList(
                        EvaluatorOutput(situation, agent_type, 1), situation)
          /\ pc = "synthesis" => IsAssessmentList(assessments, situation)
          /\ pc = "raised" =>
                /\ situation.candidate_actions = <<>>
                /\ raised.status = "ValueError"
          /\ (pc = "END"
                \/ (/\ pc \in {"synthesis", "responded"}
                    /\ situation.candidate_actions # <<>>))
                => /\ situation.candidate_actions # <<>>
                   /\ synthesize(situation, assessments).status = "ok"
          /\ (pc = "responded" /\ situation.candidate_actions # <<>>) =>
                /\ response.status_code = 200
                /\ decision.status = "ok"
                /\ \E i \in DOMAIN situation.candidate_actions :
                      decision.selected_action
                          = situation.candidate_actions[i])
    /\ [][RunRank[pc'] > RunRank[pc]]_vars

\* a request without observations whose single action is hard-constrained
\* by nothing has been answered with a Decision
C18_Witness ==
    /\ pc = "responded"
    /\ situation.observations = <<>>
    /\ Len(situation.candidate_actions) = 1
    /\ response.status_code = 200
    /\ decision.selected_action = situation.candidate_actions[1]

-----------------------------------------------------------------------------
(* C19 *)

\* C19: no state leaks between requests on the shared runner: each run
\* starts from an empty assessment list and no decision; the assessments a
\* Decision records as used are assessments made for that run's Situation
\* (their situation_id is its id); and the Decision of a Situation is what
\* the evaluators and synthesize yield on that Situation alone, whatever was
\* run before it.
C19_NoLeakBetweenRuns ==
    /\ pc = "constraint" => (assessments = <<>> /\ decision = NoDecision)
    /\ pc \in {"stability", "reality_check", "synthesis", "END"} =>
          \A i \in DOMAIN assessments :
              assessments[i].situation_id = situation.id
    /\ pc = "END" =>
          /\ decision.situation_id = situation.id
          /\ \A k \in DOMAIN decision.assessments_used :
                \E i \in DOMAIN assessments :
                    /\ assessments[i].id = decision.assessments_used[k]
                    /\ assessments[i].situation_id = situation.id
          /\ decision
                = synthesize(situation,
                    Concatenated(situation,
                        <<"constraint", "stability", "reality_check">>))

\* the second request is under way, with the assessments and the decision
\* of the first still where the graph left them
C19_WitnessPending ==
    /\ pc = "request"
    /\ situation.id = 2
    /\ assessments # <<>>
    /\ decision.status = "ok"
    /\ decision.situation_id = 1

\* the second run has ended with a decision made from warnings of its own,
\* after a first run on some other Situation
C19_Witness ==
    /\ pc = "END"
    /\ situation.id = 2
    /\ Len(assessments) >= 2
    /\ decision.status = "ok"
    /\ Len(decision.monitoring) >= 1

-----------------------------------------------------------------------------
(* C20 *)

\* positions of the hard constraints in the list that carry the action's id
HardPositions(action, assmts) ==
    {i \in DOMAIN assmts :
        assmts[i].is_hard_constraint /\ assmts[i].action_id = action.id}

\* C20: ConstraintAgent.assess emits a hard constraint for a candidate
\* action exactly when some Observation matches a deadline keyword and the
\* action's time_sensitivity is flexible: one per such action however many
\* Observations match, none for an action whose time_sensitivity is absent,
\* immediate or near; each hard constraint has severity high, confidence
\* high, a candidate's id as action_id and the ids of all Observations as
\* support.
C20_HardConstraintIffDeadlineFlexible ==
    pc = "stability" =>
        /\ \A p \in DOMAIN situation.candidate_actions :
              Cardinality(HardPositions(situation.candidate_actions[p],
                                        assessments))
                = IF /\ HasDeadlineObservation
                     /\ situation.candidate_actions[p].time_sensitivity
                           = "flexible"
                  THEN 1 ELSE 0
        /\ \A i \in DOMAIN assessments :
              assessments[i].is_hard_constraint =>
                  /\ assessments[i].agent_type = "constraint"
                  /\ assessments[i].severity = "high"
                  /\ assessments[i].confidence = "high"
                  /\ \E p \in DOMAIN situation.candidate_actions :
                        assessments[i].action_id
                            = situation.candidate_actions[p].id
                  /\ assessments[i].support
                        = [k \in DOMAIN situation.observations |->
                              situation.observations[k].id]

\* two observations match a deadline keyword; of a flexible action and one
\* without time_sensitivity only the flexible one carries a hard
\* constraint, a single one, which cites both observations
C20_Witness ==
    /\ pc = "stability"
    /\ Len(situation.observations) = 2
    /\ \A k \in 1..2 :
          situation.observations[k].content = "Deadline is Friday"
    /\ Len(situation.candidate_actions) = 2
    /\ situation.candidate_actions[1].time_sensitivity = "flexible"
    /\ situation.candidate_actions[2].time_sensitivity = "none"
    /\ Cardinality({i \in DOMAIN assessments :
                        assessments[i].is_hard_constraint}) = 1
    /\ \E i \in DOMAIN assessments :
          /\ assessments[i].is_hard_constraint
          /\ assessments[i].action_id = 1
          /\ assessments[i].support = <<1, 2>>

-----------------------------------------------------------------------------
(* C21 *)

\* positions of the assessments in the list that are no hard constraint and
\* carry the action's id
WarningPositionsOn(action, assmts) ==
    {i \in DOMAIN assmts :
        ~assmts[i].is_hard_constraint /\ assmts[i].action_id = action.id}

-----------------------------------------------------------------------------
(* C22 *)

\* the assessments of the list that an agent of the given type made
AssessmentsOf(agent_type, assmts) ==
    LET IsOf(a) == a.agent_type = agent_type
    IN  SelectSeq(assmts, IsOf)

\* C22: StabilityAgent.assess emits exactly one Assessment per candidate
\* action, in candidate order, each with that action's id and
\* is_hard_constraint = false, of severity high for an irreversible, medium
\* for a costly and low for a reversible action at every stakes level; its
\* output removes no action in filter_by_constraints.
C22_StabilityOnePerAction ==
    pc = "reality_check" =>
        LET stability == AssessmentsOf("stability", assessments)
        IN  /\ Len(stability) = Len(situation.candidate_actions)
            /\ \A p \in DOMAIN situation.candidate_actions :
                  /\ stability[p].action_id
                        = situation.candidate_actions[p].id
                  /\ ~stability[p].is_hard_constraint
                  /\ stability[p].severity
                        = CASE situation.candidate_actions[p].reversibility
                                  = "irreversible" -> "high"
                            [] situation.candidate_actions[p].reversibility
                                  = "costly" -> "medium"
                            [] situation.candidate_actions[p].reversibility
                                  = "reversible" -> "low"
            /\ filter_by_constraints(situation.candidate_actions, stability)
                  = situation.candidate_actions

\* at high stakes, a costly action listed before a reversible one: a medium
\* and a low assessment, in that order
C22_Witness ==
    /\ pc = "reality_check"
    /\ situation.stakes = "high"
    /\ Len(situation.candidate_actions) = 2
    /\ situation.candidate_actions[1].reversibility = "costly"
    /\ situation.candidate_actions[2].reversibility = "reversible"
    /\ AssessmentsOf("stability", assessments)[1].severity = "medium"
    /\ AssessmentsOf("stability", assessments)[2].severity = "low"

-----------------------------------------------------------------------------
(* C23 *)

\* positions of the assessments in the list whose support is the given list
\* of observation ids
CitingPositions(support, assmts) ==
    {i \in DOMAIN assmts : assmts[i].support = support}

\* C23: RealityCheckAgent.assess emits exactly one low-reliability warning
\* per Observation of reliability low when stakes is high or medium, citing
\* that Observation's id, of severity high at high stakes and medium at
\* medium stakes; none at low stakes, none for an Observation of medium or
\* high reliability.
C23_LowReliabilityWarning ==
    ret.op = "RealityCheckAgent.assess" =>
        \A k \in DOMAIN situation.observations :
            LET obs == situation.observations[k]
                citing == CitingPositions(<<obs.id>>, ret.result.value)
            IN  /\ Cardinality(citing)
                      = IF /\ obs.reliability = "low"
                           /\ situation.stakes \in {"high", "medium"}
                        THEN 1 ELSE 0
                /\ \A i \in citing :
                      /\ ret.result.value[i].severity = situation.stakes
                      /\ ret.result.value[i].confidence = "high"
                      /\ ~ret.result.value[i].is_hard_constraint

\* medium stakes, three observations of which the first and the third are
\* of low reliability: two warnings of severity medium, citing 1 and 3
C23_Witness ==
    /\ ret.op = "RealityCheckAgent.assess"
    /\ situation.stakes = "medium"
    /\ Len(situation.observations) = 3
    /\ situation.observations[1].reliability = "low"
    /\ situation.observations[2].reliability = "high"
    /\ situation.observations[3].reliability = "low"
    /\ Cardinality(CitingPositions(<<1>>, ret.result.value)) = 1
    /\ Cardinality(CitingPositions(<<3>>, ret.result.value)) = 1
    /\ \A i \in CitingPositions(<<3>>, ret.result.value) :
          ret.result.value[i].severity = "medium"

-----------------------------------------------------------------------------
(* C24 *)

\* positions of the observations that match the increase keywords only
IncreaseOnlyPositions ==
    {k \in DOMAIN situation.observations :
        /\ KeywordMatches[situation.observations[k].content].increase
        /\ ~KeywordMatches[situation.observations[k].content].decrease}

\* positions of the observations that match the decrease keywords only
DecreaseOnlyPositions ==
    {k \in DOMAIN situation.observations :
        /\ KeywordMatches[situation.observations[k].content].decrease
        /\ ~KeywordMatches[situation.observations[k].content].increase}

\* C24: RealityCheckAgent.assess emits one conflict Assessment for each pair
\* (i, d) of an Observation i that matches the increase keywords only and an
\* Observation d that matches the decrease keywords only, so their number
\* is the product of the two counts; each cites exactly the ids of i and d
\* and has severity medium; an Observation that matches both keyword sets
\* or neither is in no conflict.
C24_ConflictCrossProduct ==
    ret.op = "RealityCheckAgent.assess" =>
        LET out == ret.result.value
            pairs == {j \in DOMAIN out : Len(out[j].support) = 2}
        IN  /\ Cardinality(pairs)
                  = Cardinality(IncreaseOnlyPositions)
                      * Cardinality(DecreaseOnlyPositions)
            /\ \A i, d \in DOMAIN situation.observations :
                  Cardinality(CitingPositions(
                      <<situation.observations[i].id,
                        situation.observations[d].id>>, out))
                    = IF /\ i \in IncreaseOnlyPositions
                         /\ d \in DecreaseOnlyPositions
                      THEN 1 ELSE 0
            /\ \A j \in pairs :
                  /\ out[j].severity = "medium"
                  /\ out[j].confidence = "high"
                  /\ ~out[j].is_hard_constraint

\* a decrease between two increases, one of them in a text that also speaks
\* of a decrease: the only conflict is the one of the third with the second
C24_Witness ==
    /\ ret.op = "RealityCheckAgent.assess"
    /\ Len(situation.observations) = 3
    /\ situation.observations[1].content = "Sales up, prices down"
    /\ situation.observations[2].content = "Prices may drop"
    /\ situation.observations[3].content = "Sales will increase"
    /\ \A k \in 1..3 : situation.observations[k].reliability = "high"
    /\ Len(ret.result.value) = 1
    /\ ret.result.value[1].support = <<3, 2>>

\* two increases and one decrease: two conflicts
C24_WitnessProduct ==
    /\ ret.op = "RealityCheckAgent.assess"
    /\ Cardinality(IncreaseOnlyPositions) = 2
    /\ Cardinality(DecreaseOnlyPositions) = 1
    /\ Cardinality({j \in DOMAIN ret.result.value :
                        Len(ret.result.value[j].support) = 2}) = 2

-----------------------------------------------------------------------------
(* C25 *)

\* positions of the missing-information assessments in the list
MissingPositions(assmts) ==
    {i \in DOMAIN assmts :
        assmts[i].claim = "No observations available to inform decision"}

\* C25: RealityCheckAgent.assess emits exactly one missing-information
\* Assessment (severity medium, confidence high, no hard constraint) when
\* the Situation has no Observation and at least one candidate action, and
\* none when it has neither observations nor candidate actions or has an
\* Observation.
C25_MissingInformation ==
    ret.op = "RealityCheckAgent.assess" =>
        LET out == ret.result.value
        IN  /\ Cardinality(MissingPositions(out))
                  = IF /\ situation.observations = <<>>
                       /\ situation.candidate_actions # <<>>
                    THEN 1 ELSE 0
            /\ \A i \in MissingPositions(out) :
                  /\ out[i].severity = "medium"
                  /\ out[i].confidence = "high"
                  /\ ~out[i].is_hard_constraint
                  /\ out[i].action_id = NoId

\* no observation and one candidate action: the missing-information
\* assessment is the whole output
C25_Witness ==
    /\ ret.op = "RealityCheckAgent.assess"
    /\ situation.observations = <<>>
    /\ Len(situation.candidate_actions) = 1
    /\ Len(ret.result.value) = 1
    /\ MissingPositions(ret.result.value) = {1}

-----------------------------------------------------------------------------
(* C26 *)

\* positions of the assessments in the list whose action_id is absent or is
\* the id of no candidate action
OrphanPositions ==
    {k \in DOMAIN assessments :
        \/ assessments[k].action_id = NoId
        \/ \A p \in DOMAIN situation.candidate_actions :
              situation.candidate_actions[p].id # assessments[k].action_id}

\* C26: an Assessment whose action_id is absent or matches no candidate
\* action is a no-op for selection: the list with it (at any position, hard
\* constraint or not, of any severity) and the list without it give the
\* same result of filter_by_constraints, the same robustness score of every
\* candidate action, the same selected_action and alternatives_considered
\* of synthesize, and the same outcome (a Decision, or the error of an
\* empty candidate list).
C26_OrphanAssessmentIsNoOp ==
    \A k \in OrphanPositions :
        LET without == WithoutPosition(assessments, k)
        IN  /\ ret.op = "filter_by_constraints" =>
                  /\ ret.result.value
                        = filter_by_constraints(situation.candidate_actions,
                                                without)
                  /\ \A p \in DOMAIN situation.candidate_actions :
                        score_robustness(situation.candidate_actions[p],
                                         assessments)
                          = score_robustness(situation.candidate_actions[p],
                                             without)
            /\ (pc = "returned" /\ decision # NoDecision) =>
                  LET d == synthesize(situation, without)
                  IN  /\ d.status = decision.status
                      /\ situation.candidate_actions # <<>>
                            => decision.status = "ok"
                      /\ decision.status = "ok" =>
                            /\ d.selected_action = decision.selected_action
                            /\ d.alternatives_considered
                                  = decision.alternatives_considered
                            /\ d.robustness_basis = decision.robustness_basis

\* synthesize on two candidates and two assessments, a hard constraint on
\* an id no candidate has and a high-severity hard constraint without
\* action_id: both candidates survive and the first is selected
C26_Witness ==
    /\ pc = "returned"
    /\ decision.status = "ok"
    /\ Len(situation.candidate_actions) = 2
    /\ Len(assessments) = 2
    /\ OrphanPositions = {1, 2}
    /\ assessments[1].is_hard_constraint
    /\ assessments[1].action_id = 3
    /\ assessments[2].is_hard_constraint
    /\ assessments[2].action_id = NoId
    /\ assessments[2].severity = "high"
    /\ decision.robustness_basis.basis = "Passed all hard constraints."

-----------------------------------------------------------------------------
(* C27 *)

\* the node the run is at has handed over to the node the run is at next
\* (END, or the exception that leaves the graph, behind a terminal node)
IsDeclaredSuccessor(node, next) ==
    IF PHASE1_GRAPH.adjacency[node] = <<>>
    THEN next \in {"END", "raised"}
    ELSE \E i \in DOMAIN PHASE1_GRAPH.adjacency[node] :
            PHASE1_GRAPH.adjacency[node][i] = next

\* C27: the graph the runner executes has the structure PHASE1_GRAPH and
\* _build_graph's docstring declare: constraint, stability and
\* reality_check each hand over to synthesis and to nothing else, and
\* synthesis is the terminal node.
C27_GraphIsDeclaredFanIn ==
    [][(pc \in DOMAIN PHASE1_GRAPH.adjacency /\ pc' # pc)
          => IsDeclaredSuccessor(pc, pc')]_vars

-----------------------------------------------------------------------------
(* C28 *)

\* C28: RealityCheckAgent never influences which action is chosen: every
\* Assessment it emits has no action_id and is no hard constraint, and the
\* run's selected_action, alternatives_considered and robustness_basis
\* (with the robustness score) are those synthesize yields on the outputs
\* of ConstraintAgent and StabilityAgent alone; what it adds shows in
\* monitoring and assessments_used only.
C28_RealityCheckDoesNotSelect ==
    pc = "END" =>
        LET constraint == ConstraintAgent_assess(situation, 1)
            others == constraint
                        \o StabilityAgent_assess(situation,
                                                 Len(constraint) + 1)
            reality_check == AssessmentsOf("reality_check", assessments)
            d == synthesize(situation, others)
        IN  /\ \A i \in DOMAIN reality_check :
                  /\ reality_check[i].action_id = NoId
                  /\ ~reality_check[i].is_hard_constraint
            /\ d.status = "ok"
            /\ d.selected_action = decision.selected_action
            /\ d.alternatives_considered = decision.alternatives_considered
            /\ d.robustness_basis = decision.robustness_basis
            /\ Len(decision.assessments_used)
                  = Len(d.assessments_used) + Len(reality_check)

\* at high stakes, two conflicting observations of which one is of low
\* reliability, and two surviving actions: RealityCheckAgent has added a
\* high and a medium warning, and a monitoring trigger
C28_Witness ==
    /\ pc = "END"
    /\ situation.stakes = "high"
    /\ Len(situation.candidate_actions) = 2
    /\ SurvivorPositions = {1, 2}
    /\ Len(AssessmentsOf("reality_check", assessments)) = 2
    /\ AssessmentsOf("reality_check", assessments)[1].severity = "high"
    /\ Len(AssessmentsOf("reality_check", assessments)[2].support) = 2
    /\ Len(decision.monitoring) >= 1

-----------------------------------------------------------------------------
(* C29 *)

\* reversible before costly before irreversible
ClassRank == [reversible |-> 3, costly |-> 2, irreversible |-> 1]

\* the first position of the best reversibility class among the positions
FirstOfBestClass(positions) ==
    CHOOSE p \in positions :
        \A q \in positions :
            LET rp == ClassRank[situation.candidate_actions[p].reversibility]
                rq == ClassRank[situation.candidate_actions[q].reversibility]
            IN  rp > rq \/ (rp = rq /\ p <= q)

\* C29: in the pipeline, where only the three evaluators produce
\* assessments, warnings never overturn reversibility: the selected action
\* is the first-listed action of the best reversibility class (reversible,
\* then costly, then irreversible) among the actions that are not
\* hard-constrained, or among all candidates when every one is
\* hard-constrained; and no action's warning penalty exceeds 0.6, so the
\* clamp at 0 is never reached.
C29_ReversibilityDecides ==
    pc = "END" =>
        LET pool == IF SurvivorPositions = {}
                    THEN DOMAIN situation.candidate_actions
                    ELSE SurvivorPositions
        IN  /\ decision.selected_action
                  = situation.candidate_actions[FirstOfBestClass(pool)]
            /\ \A p \in DOMAIN situation.candidate_actions :
                  warning_penalty(situation.candidate_actions[p], assessments)
                      <= 6

\* at high stakes an irreversible action, which carries two high warnings
\* (penalty 0.6), is listed before a costly one; both survive and the
\* costly one is selected
C29_Witness ==
    /\ pc = "END"
    /\ situation.stakes = "high"
    /\ Len(situation.candidate_actions) = 2
    /\ situation.candidate_actions[1].reversibility = "irreversible"
    /\ situation.candidate_actions[2].reversibility = "costly"
    /\ SurvivorPositions = {1, 2}
    /\ warning_penalty(situation.candidate_actions[1], assessments) = 6
    /\ decision.selected_action.id = 2

-----------------------------------------------------------------------------
(* C30 *)

\* C30: the rationale matches the outcome.  For every Decision returned by
\* synthesize, robustness_basis states that all hard constraints were passed
\* exactly when the selected action is referenced by no hard-constraint
\* Assessment, and states that no action passed all hard constraints
\* exactly when every candidate action is referenced by a hard-constraint
\* Assessment, in which case the selected action is hard-constrained itself.
C30_RationaleMatchesOutcome ==
    (pc = "returned" /\ decision.status = "ok") =>
        LET passed == decision.robustness_basis.basis
                          = "Passed all hard constraints."
            none_passed == decision.robustness_basis.basis
                               = "No action passed all hard constraints."
            selected_constrained ==
                HardConstrained(decision.selected_action, assessments)
        IN  /\ passed <=> ~selected_constrained
            /\ none_passed <=> SurvivorPositions = {}
            /\ none_passed => selected_constrained

\* a Decision that passed although another, more reversible candidate is
\* hard-constrained
C30_Witness ==
    /\ pc = "returned"
    /\ decision.status = "ok"
    /\ decision.robustness_basis.basis = "Passed all hard constraints."
    /\ Len(situation.candidate_actions) = 2
    /\ situation.candidate_actions[1].reversibility = "reversible"
    /\ situation.candidate_actions[2].reversibility = "irreversible"
    /\ SurvivorPositions = {2}
    /\ decision.selected_action.id = 2

\* a Decision made by the fallback: every candidate is hard-constrained
C30_WitnessFallback ==
    /\ pc = "returned"
    /\ decision.status = "ok"
    /\ decision.robustness_basis.basis
          = "No action passed all hard constraints."
    /\ Len(situation.candidate_actions) = 2
    /\ SurvivorPositions = {}

====
